---- MODULE Spec2Model ----
(***************************************************************************)
(* Model of pulse_bybit.adapter.BybitAdapter: the action table, the        *)
(* request builders, request signing, request execution (call_api) and the *)
(* connection lifecycle (connect / disconnect).                            *)
(*                                                                         *)
(* Python strings that the code transforms character by character (the     *)
(* arguments of str.upper) are sequences of one-character strings; every   *)
(* other string is a TLA+ string.  A Python dict is a function (message    *)
(* parameters, headers) or, where the insertion order matters (descriptor  *)
(* parameters), a sequence of <<key, value>> pairs.  None is the absence   *)
(* of a key, the string None (credentials) or 0 (the session handle).      *)
(***************************************************************************)
EXTENDS Integers, Sequences, FiniteSets, TLC

VARIABLES
    api_key,      \* self._api_key
    api_secret,   \* self._api_secret
    session,      \* self._session: 0 is None, n > 0 the n-th Session created
    connected,    \* self.connected
    time_offset,  \* self._time_offset
    closes,       \* closes[n]: how often close() ran on the n-th Session
    input,        \* the argument drawn for the operation under study
    probed,       \* history: the most recent connect(), its session and whether it returned
    last          \* the operation that ran last, its inputs and its outcome

vars == <<api_key, api_secret, session, connected, time_offset, closes, input, probed, last>>

adapter == <<api_key, api_secret, session, connected, time_offset, closes>>

(***************************************************************************)
(* Bounds                                                                  *)
(***************************************************************************)
MaxSessions == 3      \* Session objects created in one run
MaxReconnects == 1    \* of these, the ones connect() creates while call_api() is studied
MaxClock == 1         \* local clock readings, in ms: 0 .. MaxClock
MaxServerSec == 2     \* server times reported by the exchange, in s: 1 .. MaxServerSec

Clock == 0..MaxClock  \* int(time.time() * 1000)

None == "None"

(***************************************************************************)
(* Strings                                                                 *)
(***************************************************************************)
LowerCase == <<"a","b","c","d","e","f","g","h","i","j","k","l","m",
               "n","o","p","q","r","s","t","u","v","w","x","y","z">>
UpperCase == <<"A","B","C","D","E","F","G","H","I","J","K","L","M",
               "N","O","P","Q","R","S","T","U","V","W","X","Y","Z">>

UpperChar(c) ==
    IF \E i \in DOMAIN LowerCase : LowerCase[i] = c
    THEN UpperCase[CHOOSE i \in DOMAIN LowerCase : LowerCase[i] = c]
    ELSE c

\* str.upper()
Upper(cs) == [i \in DOMAIN cs |-> UpperChar(cs[i])]

\* the Python string made of the characters cs
RECURSIVE Text(_)
Text(cs) == IF cs = <<>> THEN "" ELSE cs[1] \o Text(Tail(cs))

\* str(n) of an int
Str(n) == ToString(n)

DigitChars == <<"0","1","2","3","4","5","6","7","8","9">>

\* the decimal digits of n, as str(n) and the exchange's timeSecond have them
RECURSIVE Digits(_)
Digits(n) ==
    IF n < 10 THEN <<DigitChars[n + 1]>>
    ELSE Digits(n \div 10) \o <<DigitChars[(n % 10) + 1]>>

\* "0" * n
RECURSIVE Zeros(_)
Zeros(n) == IF n <= 0 THEN "" ELSE "0" \o Zeros(n - 1)

\* the numbers a message carries: a Python int m, or the float m * 10^e whose
\* shortest decimal digits are those of m (m > 0, m not a multiple of 10)
IntValue(m) == [float |-> FALSE, m |-> m, e |-> 0]
FloatValue(m, e) == [float |-> TRUE, m |-> m, e |-> e]

\* str(x) of an int or a float.  For a float with digits d1..dk and the decimal
\* point after position decpt, Python writes the exponent form when
\* decpt <= -4 or decpt > 16, the positional form otherwise.
StrNumber(x) ==
    IF ~x.float THEN ToString(x.m)
    ELSE
    LET ds == Digits(x.m)
        k == Len(ds)
        decpt == k + x.e
        exp == decpt - 1
        abs == IF exp < 0 THEN -exp ELSE exp
    IN  IF decpt <= -4 \/ decpt > 16
        THEN ds[1] \o (IF k > 1 THEN "." \o Text(Tail(ds)) ELSE "") \o "e" \o
             (IF exp < 0 THEN "-" ELSE "+") \o (IF abs < 10 THEN "0" ELSE "") \o
             ToString(abs)
        ELSE IF decpt <= 0 THEN "0." \o Zeros(-decpt) \o Text(ds)
        ELSE IF decpt < k
        THEN Text(SubSeq(ds, 1, decpt)) \o "." \o Text(SubSeq(ds, decpt + 1, k))
        ELSE Text(ds) \o Zeros(decpt - k) \o ".0"

\* ", ".join(...) of the reprs of a list of strings: the body of repr(list)
RECURSIVE ReprItems(_)
ReprItems(xs) ==
    IF xs = <<>> THEN ""
    ELSE "'" \o xs[1] \o "'" \o (IF Len(xs) > 1 THEN ", " ELSE "") \o ReprItems(Tail(xs))

\* repr of a list of strings, as an f-string renders it
ReprList(xs) == "[" \o ReprItems(xs) \o "]"

(***************************************************************************)
(* Dicts                                                                   *)
(***************************************************************************)
EmptyDict == [k \in {} |-> ""]

Has(d, k) == k \in DOMAIN d                       \* k in d
Get(d, k, default) == IF Has(d, k) THEN d[k] ELSE default   \* d.get(k, default)

(***************************************************************************)
(* Action table                                                            *)
(***************************************************************************)
ENDPOINTS ==
    [tickers |-> "/v5/market/tickers",
     kline |-> "/v5/market/kline",
     orderbook |-> "/v5/market/orderbook",
     server_time |-> "/v5/market/time",
     place_order |-> "/v5/order/create",
     cancel_order |-> "/v5/order/cancel",
     order_detail |-> "/v5/order/realtime",
     open_orders |-> "/v5/order/realtime",
     wallet_balance |-> "/v5/account/wallet-balance"]

\* list(ACTION_MAP.keys()), in insertion order
ActionKeys ==
    <<"ACT.QUERY.DATA", "ACT.QUERY.STATUS", "ACT.TRANSACT.REQUEST",
      "ACT.CANCEL", "ACT.QUERY.LIST", "ACT.QUERY.BALANCE">>

ACTION_MAP ==
    [a \in {ActionKeys[i] : i \in DOMAIN ActionKeys} |->
        CASE a = "ACT.QUERY.DATA" -> "query"
          [] a = "ACT.QUERY.STATUS" -> "order_status"
          [] a = "ACT.TRANSACT.REQUEST" -> "place_order"
          [] a = "ACT.CANCEL" -> "cancel_order"
          [] a = "ACT.QUERY.LIST" -> "open_orders"
          [] a = "ACT.QUERY.BALANCE" -> "wallet_balance"]

supported_actions == ActionKeys

(***************************************************************************)
(* Outcomes of a call: a returned value or a raised exception              *)
(***************************************************************************)
Return(v) == [ok |-> TRUE, value |-> v]

\* exc is the class raised; fmt the f-string and args its interpolated values
Raise(exc, fmt, args) == [ok |-> FALSE, exc |-> exc, fmt |-> fmt, args |-> args]

Descriptor(method, endpoint, params, signed) ==
    [method |-> method, endpoint |-> endpoint, params |-> params, signed |-> signed]

SPOT == <<"s","p","o","t">>
MARKET == <<"M","a","r","k","e","t">>

(***************************************************************************)
(* Request builders                                                        *)
(***************************************************************************)
_build_query_request(params) ==
    LET hasSymbol == Has(params, "symbol") /\ params["symbol"] # <<>>
        query_type == Get(params, "type", "price")
        category == Text(Get(params, "category", SPOT))
    IN  IF query_type \in {"price", "24h"}
        THEN Return(Descriptor("GET", ENDPOINTS.tickers,
                 << <<"category", category>> >> \o
                 (IF hasSymbol THEN << <<"symbol", Text(Upper(params["symbol"]))>> >>
                  ELSE <<>>),
                 FALSE))
        ELSE IF query_type = "klines"
        THEN IF ~hasSymbol
             THEN Raise("AdapterError", "Symbol required for klines query.", <<>>)
             ELSE Return(Descriptor("GET", ENDPOINTS.kline,
                      << <<"category", category>>,
                         <<"symbol", Text(Upper(params["symbol"]))>>,
                         <<"interval", Get(params, "interval", "60")>>,
                         <<"limit", Get(params, "limit", 100)>> >>,
                      FALSE))
        ELSE IF query_type = "depth"
        THEN IF ~hasSymbol
             THEN Raise("AdapterError", "Symbol required for depth query.", <<>>)
             ELSE Return(Descriptor("GET", ENDPOINTS.orderbook,
                      << <<"category", category>>,
                         <<"symbol", Text(Upper(params["symbol"]))>>,
                         <<"limit", Get(params, "limit", 20)>> >>,
                      FALSE))
        ELSE Raise("AdapterError",
                   "Unknown query type '{}'. Use: price, 24h, klines, depth.",
                   <<query_type>>)

\* the wrong field is named: the last required field instead of the missing one
_build_order_request_wrong_field(params) ==
    LET required == <<"symbol", "side", "quantity">>
        missing == {i \in DOMAIN required : ~Has(params, required[i])}
    IN  IF missing # {}
        THEN Raise("AdapterError", "Missing required field '{}' for order placement.",
                   <<required[Len(required)]>>)
        ELSE Return(Descriptor("POST", ENDPOINTS.place_order, <<>>, TRUE))

_build_order_request(params) ==
    LET required == <<"symbol", "side", "quantity">>
        missing == {i \in DOMAIN required : ~Has(params, required[i])}
    IN  IF missing # {}
        THEN LET first == CHOOSE i \in missing : \A j \in missing : i <= j
             IN  Raise("AdapterError", "Missing required field '{}' for order placement.",
                       <<required[first]>>)
        ELSE
        LET orderType == Get(params, "order_type", MARKET)
            order_params ==
                << <<"category", Text(Get(params, "category", SPOT))>>,
                   <<"symbol", Text(Upper(params["symbol"]))>>,
                   <<"side", IF Upper(params["side"]) = <<"B","U","Y">>
                             THEN "Buy" ELSE "Sell">>,
                   <<"orderType", Text(orderType)>>,
                   <<"qty", StrNumber(params["quantity"])>> >>
        IN  IF Upper(orderType) = <<"L","I","M","I","T">>
            THEN IF ~Has(params, "price")
                 THEN Raise("AdapterError", "Price required for LIMIT orders.", <<>>)
                 ELSE Return(Descriptor("POST", ENDPOINTS.place_order,
                          [order_params EXCEPT ![4] = <<"orderType", "Limit">>] \o
                          << <<"price", StrNumber(params["price"])>>,
                             <<"timeInForce", Get(params, "time_in_force", "GTC")>> >>,
                          TRUE))
            ELSE Return(Descriptor("POST", ENDPOINTS.place_order, order_params, TRUE))

_build_cancel_request(params) ==
    IF ~Has(params, "symbol")
    THEN Raise("AdapterError", "Symbol required for order cancellation.", <<>>)
    ELSE IF ~Has(params, "order_id")
    THEN Raise("AdapterError", "Order ID required for cancellation.", <<>>)
    ELSE Return(Descriptor("POST", ENDPOINTS.cancel_order,
             << <<"category", Text(Get(params, "category", SPOT))>>,
                <<"symbol", Text(Upper(params["symbol"]))>>,
                <<"orderId", Str(params["order_id"])>> >>,
             TRUE))

_build_status_request(params) ==
    IF ~Has(params, "symbol")
    THEN Raise("AdapterError", "Symbol required for order status query.", <<>>)
    ELSE IF ~Has(params, "order_id")
    THEN Raise("AdapterError", "Order ID required for status query.", <<>>)
    ELSE Return(Descriptor("GET", ENDPOINTS.order_detail,
             << <<"category", Text(Get(params, "category", SPOT))>>,
                <<"symbol", Text(Upper(params["symbol"]))>>,
                <<"orderId", Str(params["order_id"])>> >>,
             TRUE))

_build_open_orders_request(params) ==
    Return(Descriptor("GET", ENDPOINTS.open_orders,
        << <<"category", Text(Get(params, "category", SPOT))>> >> \o
        (IF Has(params, "symbol")
         THEN << <<"symbol", Text(Upper(params["symbol"]))>> >> ELSE <<>>),
        TRUE))

_build_balance_request(params) ==
    Return(Descriptor("GET", ENDPOINTS.wallet_balance,
        << <<"accountType", Get(params, "account_type", "UNIFIED")>> >>,
        TRUE))

(***************************************************************************)
(* to_native                                                               *)
(***************************************************************************)
UnsupportedAction(action) ==
    Raise("AdapterError", "Unsupported action '{}'. Supported: {}",
          <<action, ReprList(ActionKeys)>>)

\* an action outside the table falls through to the market query builder
to_native_no_table_check(message) ==
    LET action == message.action
        params == message.parameters
    IN  IF action = "ACT.TRANSACT.REQUEST" THEN _build_order_request(params)
        ELSE _build_query_request(params)

\* the dispatch takes the wrong rows: orders are built as market queries
to_native_wrong_row(message) ==
    LET action == message.action
        params == message.parameters
    IN  IF action \notin DOMAIN ACTION_MAP THEN UnsupportedAction(action)
        ELSE IF ACTION_MAP[action] = "wallet_balance"
        THEN Return(Descriptor("GET", ENDPOINTS.wallet_balance,
                 << <<"accountType", Get(params, "account_type", "UNIFIED")>> >>,
                 FALSE))
        ELSE _build_query_request(params)

to_native(message) ==
    LET action == message.action
        params == message.parameters
        operation == IF action \in DOMAIN ACTION_MAP THEN ACTION_MAP[action] ELSE None
    IN  IF operation = None
        THEN UnsupportedAction(action)
        ELSE CASE operation = "query" -> _build_query_request(params)
               [] operation = "place_order" -> _build_order_request(params)
               [] operation = "cancel_order" -> _build_cancel_request(params)
               [] operation = "order_status" -> _build_status_request(params)
               [] operation = "open_orders" -> _build_open_orders_request(params)
               [] operation = "wallet_balance" -> _build_balance_request(params)
               [] OTHER -> Raise("AdapterError", "Unknown operation: {}", <<operation>>)

(***************************************************************************)
(* Adapter state as one value                                              *)
(***************************************************************************)
Self ==
    [api_key |-> api_key, api_secret |-> api_secret, session |-> session,
     connected |-> connected, time_offset |-> time_offset, closes |-> closes]

\* __init__
NewAdapter(key, secret) ==
    [api_key |-> key, api_secret |-> secret, session |-> 0,
     connected |-> FALSE, time_offset |-> 0, closes |-> <<>>]

BASE_URL == "https://api.bybit.com"
_recv_window == "20000"
Timeout == 10

\* requests.Session(): a fresh handle, not yet closed
NewSession(self) ==
    [self EXCEPT !.session = Len(self.closes) + 1, !.closes = Append(self.closes, 0)]

_ensure_session(self) == IF self.session = 0 THEN NewSession(self) ELSE self

\* one HTTP request handed to the session
HttpRequest(self, verb, endpoint, params, headers) ==
    [session |-> self.session, verb |-> verb, url |-> BASE_URL \o endpoint,
     params |-> params, headers |-> headers, timeout |-> Timeout]

(***************************************************************************)
(* Signing                                                                 *)
(***************************************************************************)
\* keys of descriptor parameters, in the order Python sorts strings
KeyOrder ==
    <<"accountType", "category", "interval", "limit", "orderId", "orderType",
      "price", "qty", "side", "symbol", "timeInForce">>

KeyRank(k) == CHOOSE i \in DOMAIN KeyOrder : KeyOrder[i] = k

\* f"{v}" of a parameter value: limit is the only int among them
Fmt(pair) == IF pair[1] = "limit" THEN Str(pair[2]) ELSE pair[2]

RECURSIVE Insert(_, _)
Insert(pair, sorted) ==
    IF sorted = <<>> THEN <<pair>>
    ELSE IF KeyRank(pair[1]) < KeyRank(sorted[1][1]) THEN <<pair>> \o sorted
    ELSE <<sorted[1]>> \o Insert(pair, Tail(sorted))

\* sorted(params.items())
RECURSIVE Sorted(_)
Sorted(pairs) == IF pairs = <<>> THEN <<>> ELSE Insert(pairs[1], Sorted(Tail(pairs)))

\* "&".join(f"{k}={v}" for k, v in pairs)
RECURSIVE JoinQuery(_)
JoinQuery(pairs) ==
    IF pairs = <<>> THEN ""
    ELSE pairs[1][1] \o "=" \o Fmt(pairs[1]) \o
         (IF Len(pairs) > 1 THEN "&" ELSE "") \o JoinQuery(Tail(pairs))

\* json.dumps(params): default separators ", " and ": ", keys in dict order
RECURSIVE JsonItems(_)
JsonItems(pairs) ==
    IF pairs = <<>> THEN ""
    ELSE "\"" \o pairs[1][1] \o "\": " \o
         (IF pairs[1][1] = "limit" THEN Str(pairs[1][2]) ELSE "\"" \o pairs[1][2] \o "\"") \o
         (IF Len(pairs) > 1 THEN ", " ELSE "") \o JsonItems(Tail(pairs))

JsonDumps(pairs) == "{" \o JsonItems(pairs) \o "}"

\* hmac.new(secret, sign_str, sha256).hexdigest(), left uninterpreted
HmacSha256Hex(secret, sign_str) == "hmac_sha256(" \o secret \o ", " \o sign_str \o ")"

Truthy(s) == s # None /\ s # ""

NoCredentials ==
    Raise("AdapterError", "API key and secret required for signed requests.", <<>>)

\* the credentials are not checked
_sign_get_unchecked(self, params, now) ==
    LET timestamp == Str(now + self.time_offset)
    IN  Return(("X-BAPI-TIMESTAMP" :> timestamp) @@ ("X-BAPI-RECV-WINDOW" :> _recv_window))

_sign_get(self, params, now) ==
    IF ~Truthy(self.api_key) \/ ~Truthy(self.api_secret) THEN NoCredentials
    ELSE
    LET timestamp == Str(now + self.time_offset)
        param_str == JoinQuery(Sorted(params))
        sign_str == timestamp \o self.api_key \o _recv_window \o param_str
        signature == HmacSha256Hex(self.api_secret, sign_str)
    IN  Return(("X-BAPI-API-KEY" :> self.api_key) @@
               ("X-BAPI-SIGN" :> signature) @@
               ("X-BAPI-TIMESTAMP" :> timestamp) @@
               ("X-BAPI-RECV-WINDOW" :> _recv_window))

\* the POST body is signed as if it were a query string
_sign_post_signs_query(self, params, now) ==
    IF ~Truthy(self.api_key) \/ ~Truthy(self.api_secret) THEN NoCredentials
    ELSE
    LET timestamp == Str(now + self.time_offset)
        param_str == JoinQuery(Sorted(params))
        sign_str == timestamp \o self.api_key \o _recv_window \o param_str
        signature == HmacSha256Hex(self.api_secret, sign_str)
    IN  Return(("X-BAPI-API-KEY" :> self.api_key) @@
               ("X-BAPI-SIGN" :> signature) @@
               ("X-BAPI-TIMESTAMP" :> timestamp) @@
               ("X-BAPI-RECV-WINDOW" :> _recv_window) @@
               ("Content-Type" :> "application/json"))

_sign_post(self, params, now) ==
    IF ~Truthy(self.api_key) \/ ~Truthy(self.api_secret) THEN NoCredentials
    ELSE
    LET timestamp == Str(now + self.time_offset)
        param_str == JsonDumps(params)
        sign_str == timestamp \o self.api_key \o _recv_window \o param_str
        signature == HmacSha256Hex(self.api_secret, sign_str)
    IN  Return(("X-BAPI-API-KEY" :> self.api_key) @@
               ("X-BAPI-SIGN" :> signature) @@
               ("X-BAPI-TIMESTAMP" :> timestamp) @@
               ("X-BAPI-RECV-WINDOW" :> _recv_window) @@
               ("Content-Type" :> "application/json"))

(***************************************************************************)
(* Exceptions and HTTP outcomes                                            *)
(***************************************************************************)
\* the classes an exception of class cls is an instance of
Ancestors(cls) ==
    {cls, "Exception"} \cup
    CASE cls = "requests.ConnectionError" -> {"requests.RequestException", "OSError"}
      [] cls = "requests.ReadTimeout" ->
            {"requests.Timeout", "requests.RequestException", "OSError"}
      [] cls = "requests.ConnectTimeout" ->
            {"requests.ConnectionError", "requests.Timeout",
             "requests.RequestException", "OSError"}
      [] cls = "requests.HTTPError" -> {"requests.RequestException", "OSError"}
      [] cls = "requests.TooManyRedirects" -> {"requests.RequestException", "OSError"}
      [] cls = "requests.JSONDecodeError" ->
            {"requests.RequestException", "OSError", "ValueError"}
      [] cls = "ConnectionError" -> {"OSError"}
      [] cls = "TimeoutError" -> {"OSError"}
      [] cls = "AdapterConnectionError" -> {"AdapterError"}
      [] OTHER -> {}

IsInstance(cls, classes) == Ancestors(cls) \cap classes # {}

\* an exception raised by library code, before any except clause sees it
Raw(cls) == Raise(cls, "{}", <<>>)

\* what the HTTP call does: it raises, or a response arrives
NetRaises(cls) == [raises |-> cls]
NetResponse(status, body) == [status |-> status, body |-> body]

\* resp.json(): the body is not JSON, is JSON but no object, or is an object
BodyInvalid == [json |-> "invalid"]
BodyArray == [json |-> "array"]
BodyObject(data) == [json |-> "object", data |-> data]

Opt(k, vals) == {EmptyDict} \cup {k :> v : v \in vals}
Cross(A, B) == {a @@ b : a \in A, b \in B}

(***************************************************************************)
(* call_api                                                                *)
(***************************************************************************)
\* the result code is not looked at and the whole body is returned
ReadBody_ignores_ret_code(body) ==
    IF body.json = "invalid" THEN Raw("requests.JSONDecodeError")
    ELSE IF body.json = "array" THEN Raw("AttributeError")
    ELSE Return(body.data)

\* the body of the try block, from the parsed body on
ReadBody(body) ==
    IF body.json = "invalid" THEN Raw("requests.JSONDecodeError")
    ELSE IF body.json = "array" THEN Raw("AttributeError")
    ELSE
    LET data == body.data
        ret_code == Get(data, "retCode", 0)
    IN  IF ret_code # 0
        THEN Raise("AdapterError", "Bybit error {}: {}",
                   <<Str(ret_code), Get(data, "retMsg", "Unknown error")>>)
        ELSE Return(Get(data, "result", data))

\* the except clauses without the one for timeouts
Translate_no_timeout(outcome) ==
    IF outcome.ok THEN outcome
    ELSE IF IsInstance(outcome.exc, {"requests.ConnectionError", "ConnectionError"})
    THEN Raise("AdapterConnectionError", "Cannot reach Bybit: {}", <<outcome.exc>>)
    ELSE IF IsInstance(outcome.exc, {"AdapterError"})
    THEN outcome
    ELSE Raise("AdapterError", "Bybit request failed: {}", <<outcome.exc>>)

\* the except clauses of call_api, in order
Translate(outcome) ==
    IF outcome.ok THEN outcome
    ELSE IF IsInstance(outcome.exc, {"requests.ConnectionError", "ConnectionError"})
    THEN Raise("AdapterConnectionError", "Cannot reach Bybit: {}", <<outcome.exc>>)
    ELSE IF IsInstance(outcome.exc, {"requests.Timeout", "TimeoutError"})
    THEN Raise("AdapterConnectionError", "Bybit request timed out: {}", <<outcome.exc>>)
    ELSE IF IsInstance(outcome.exc, {"AdapterError"})
    THEN outcome
    ELSE Raise("AdapterError", "Bybit request failed: {}", <<outcome.exc>>)

\* a request that failed in transport is issued a second time
call_api_retries(self, native_request, net, now) ==
    LET s == _ensure_session(self)
        method == native_request.method
        params == Get(native_request, "params", <<>>)
        signed == Get(native_request, "signed", FALSE)
        headers ==
            IF method = "GET"
            THEN IF signed THEN _sign_get(s, params, now) ELSE Return(EmptyDict)
            ELSE IF signed THEN _sign_post(s, params, now)
                 ELSE Return("Content-Type" :> "application/json")
        request == HttpRequest(s, method, native_request.endpoint, params, headers.value)
        tried ==
            IF method \notin {"GET", "POST"}
            THEN Raise("AdapterError", "Unknown HTTP method: {}", <<method>>)
            ELSE IF ~headers.ok THEN headers
            ELSE IF Has(net, "raises") THEN Raw(net.raises)
            ELSE ReadBody(net.body)
    IN  [self |-> s,
         sent |-> IF method \in {"GET", "POST"} /\ headers.ok
                  THEN IF Has(net, "raises") THEN <<request, request>> ELSE <<request>>
                  ELSE <<>>,
         outcome |-> Translate(tried)]

call_api(self, native_request, net, now) ==
    LET s == _ensure_session(self)
        method == native_request.method
        params == Get(native_request, "params", <<>>)
        signed == Get(native_request, "signed", FALSE)
        headers ==
            IF method = "GET"
            THEN IF signed THEN _sign_get(s, params, now) ELSE Return(EmptyDict)
            ELSE IF signed THEN _sign_post(s, params, now)
                 ELSE Return("Content-Type" :> "application/json")
        issued == method \in {"GET", "POST"} /\ headers.ok
        sent ==
            IF issued
            THEN <<HttpRequest(s, method, native_request.endpoint, params, headers.value)>>
            ELSE <<>>
        tried ==
            IF method \notin {"GET", "POST"}
            THEN Raise("AdapterError", "Unknown HTTP method: {}", <<method>>)
            ELSE IF ~headers.ok THEN headers
            ELSE IF Has(net, "raises") THEN Raw(net.raises)
            ELSE ReadBody(net.body)
    IN  [self |-> s, sent |-> sent, outcome |-> Translate(tried)]

(***************************************************************************)
(* connect, disconnect                                                     *)
(***************************************************************************)
DigitValue(c) == (CHOOSE i \in DOMAIN DigitChars : DigitChars[i] = c) - 1

\* int(s) of a string of decimal digits
RECURSIVE ParseInt(_)
ParseInt(cs) ==
    IF cs = <<>> THEN 0
    ELSE ParseInt(SubSeq(cs, 1, Len(cs) - 1)) * 10 + DigitValue(cs[Len(cs)])

connect(self, net, now) ==
    LET s == NewSession(self)
        sent == <<HttpRequest(s, "GET", ENDPOINTS.server_time, <<>>, EmptyDict)>>
        raw ==
            IF Has(net, "raises") THEN Raw(net.raises)
            ELSE IF net.status >= 400 THEN Raw("requests.HTTPError")
            ELSE IF net.body.json = "invalid" THEN Raw("requests.JSONDecodeError")
            ELSE IF net.body.json = "array" THEN Raw("AttributeError")
            ELSE Return(Get(Get(net.body.data, "result", EmptyDict), "timeSecond", <<>>))
    IN  IF raw.ok
        THEN [self |-> [s EXCEPT !.time_offset =
                                     IF raw.value # <<>>
                                     THEN ParseInt(raw.value) * 1000 - now ELSE @,
                                 !.connected = TRUE],
              sent |-> sent, outcome |-> Return(None)]
        ELSE [self |-> s, sent |-> sent,
              outcome |->
                IF IsInstance(raw.exc, {"requests.ConnectionError"})
                THEN Raise("AdapterConnectionError", "Cannot reach Bybit API: {}",
                           <<raw.exc>>)
                ELSE IF IsInstance(raw.exc, {"requests.HTTPError"})
                THEN Raise("AdapterConnectionError", "Bybit API error: {}", <<raw.exc>>)
                ELSE raw]

\* the session is closed but the handle is kept
disconnect_keeps_handle(self) ==
    [self |-> [self EXCEPT !.closes = IF self.session # 0
                                      THEN [@ EXCEPT ![self.session] = @ + 1] ELSE @,
                           !.connected = FALSE],
     sent |-> <<>>, outcome |-> Return(None)]

disconnect(self) ==
    [self |-> [self EXCEPT !.closes = IF self.session # 0
                                      THEN [@ EXCEPT ![self.session] = @ + 1] ELSE @,
                           !.session = 0,
                           !.connected = FALSE],
     sent |-> <<>>, outcome |-> Return(None)]

(***************************************************************************)
(* Inputs                                                                  *)
(***************************************************************************)
BTC == <<"b","t","c">>
LINEAR == <<"l","i","n","e","a","r">>

Message(action, parameters) == [action |-> action, parameters |-> parameters]

QueryParameters ==
    Cross(Opt("symbol", {BTC, <<>>}),
    Cross(Opt("type", {"price", "24h", "klines", "depth", "trades"}),
    Cross(Opt("category", {LINEAR}),
    Cross(Opt("interval", {"15"}), Opt("limit", {5})))))

OrderParameters ==
    Cross(Opt("symbol", {BTC}),
    Cross(Opt("side", {<<"b","u","y">>, <<"S","E","L","L">>, <<"h","o","l","d">>}),
    Cross(Opt("quantity", {IntValue(3), FloatValue(1, -3), FloatValue(1, -5)}),
    Cross(Opt("order_type", {<<"l","i","m","i","t">>, <<"L","I","M","I","T">>,
                             <<"L","i","m","i","t">>, MARKET, <<"s","t","o","p">>}),
    Cross(Opt("price", {IntValue(2000), FloatValue(655, -1), FloatValue(1, -5)}),
    Cross(Opt("time_in_force", {"IOC"}), Opt("category", {LINEAR})))))))

OrderIdParameters ==
    Cross(Opt("symbol", {BTC}), Cross(Opt("order_id", {42}), Opt("category", {LINEAR})))

OpenOrdersParameters == Cross(Opt("symbol", {BTC}), Opt("category", {LINEAR}))

BalanceParameters == Opt("account_type", {"CONTRACT"})

Messages ==
    {Message("ACT.QUERY.DATA", p) : p \in QueryParameters} \cup
    {Message("ACT.TRANSACT.REQUEST", p) : p \in OrderParameters} \cup
    {Message(a, p) : a \in {"ACT.CANCEL", "ACT.QUERY.STATUS"}, p \in OrderIdParameters} \cup
    {Message("ACT.QUERY.LIST", p) : p \in OpenOrdersParameters} \cup
    {Message("ACT.QUERY.BALANCE", p) : p \in BalanceParameters} \cup
    {Message(a, p) : a \in {"ACT.CREATE.TEXT", "ACT.QUERY", ""},
                     p \in {EmptyDict, "symbol" :> BTC}}

NoInput == [none |-> TRUE]

\* descriptors handed to call_api: built by to_native, or written by the caller
Requests ==
    {to_native(m).value : m \in
        {Message("ACT.QUERY.DATA", "symbol" :> BTC),
         Message("ACT.QUERY.BALANCE", EmptyDict),
         Message("ACT.QUERY.STATUS", ("symbol" :> BTC) @@ ("order_id" :> 42)),
         Message("ACT.CANCEL", ("symbol" :> BTC) @@ ("order_id" :> 42))}} \cup
    {Descriptor("POST", ENDPOINTS.place_order, << <<"symbol", "BTC">> >>, FALSE),
     Descriptor("DELETE", ENDPOINTS.cancel_order, << <<"symbol", "BTC">> >>, TRUE),
     [method |-> "GET", endpoint |-> ENDPOINTS.tickers]}

Payload == "orderId" :> "abc123"

CallNets ==
    {NetRaises(c) : c \in {"requests.ConnectionError", "ConnectionError",
                           "requests.ReadTimeout", "requests.ConnectTimeout",
                           "TimeoutError", "requests.TooManyRedirects"}} \cup
    {NetResponse(200, b) : b \in {BodyInvalid, BodyArray}} \cup
    {NetResponse(200, BodyObject(d)) : d \in
        Cross(Opt("retCode", {0, 10001}),
        Cross(Opt("retMsg", {"Invalid symbol"}), Opt("result", {Payload})))}

ProbeNets ==
    {NetRaises(c) : c \in {"requests.ConnectionError", "requests.ConnectTimeout",
                           "requests.ReadTimeout"}} \cup
    {NetResponse(503, BodyInvalid), NetResponse(200, BodyInvalid)} \cup
    {NetResponse(200, BodyObject(d)) : d \in
        {EmptyDict, "result" :> EmptyDict} \cup
        {"result" :> ("timeSecond" :> Digits(n)) : n \in 1..MaxServerSec}}

\* the inputs of the steps that only move the adapter between its states
FewRequests ==
    {to_native(m).value : m \in {Message("ACT.QUERY.DATA", "symbol" :> BTC),
                                 Message("ACT.QUERY.BALANCE", EmptyDict)}}

FewCallNets ==
    {NetRaises("requests.ConnectionError"),
     NetResponse(200, BodyObject(("retCode" :> 0) @@ ("result" :> Payload)))}

FewProbeNets ==
    {NetRaises("requests.ConnectionError")} \cup
    {NetResponse(200, BodyObject("result" :> ("timeSecond" :> Digits(n)))) :
        n \in 1..MaxServerSec}

CallInput(request, net, now) == [request |-> request, net |-> net, now |-> now]

CallInputs == {CallInput(r, n, t) : r \in Requests, n \in CallNets, t \in Clock}

Credentials ==
    {<<None, None>>, <<"test-key", None>>, <<"", "test-secret">>,
     <<"test-key", "">>, <<"test-key", "test-secret">>}

(***************************************************************************)
(* The adapter's operations as steps                                       *)
(***************************************************************************)
NotProbed == [ran |-> FALSE, session |-> 0, ok |-> FALSE]

Becomes(self) ==
    /\ api_key' = self.api_key
    /\ api_secret' = self.api_secret
    /\ session' = self.session
    /\ connected' = self.connected
    /\ time_offset' = self.time_offset
    /\ closes' = self.closes

Starts(self) ==
    /\ api_key = self.api_key
    /\ api_secret = self.api_secret
    /\ session = self.session
    /\ connected = self.connected
    /\ time_offset = self.time_offset
    /\ closes = self.closes

ConnectWith(net, now) ==
    /\ LET r == connect(Self, net, now)
       IN  /\ Becomes(r.self)
           /\ last' = [op |-> "connect", before |-> Self, net |-> net, now |-> now,
                       sent |-> r.sent, outcome |-> r.outcome]
           /\ probed' = [ran |-> TRUE, session |-> r.self.session, ok |-> r.outcome.ok]
    /\ UNCHANGED input

CallApiWith(request, net, now) ==
    /\ session = 0 => Len(closes) < MaxSessions
    /\ LET r == call_api(Self, request, net, now)
       IN  /\ Becomes(r.self)
           /\ last' = [op |-> "call_api", before |-> Self, request |-> request,
                       net |-> net, now |-> now,
                       sent |-> r.sent, outcome |-> r.outcome]
    /\ UNCHANGED <<input, probed>>

Disconnect ==
    /\ LET r == disconnect(Self)
       IN  /\ Becomes(r.self)
           /\ last' = [op |-> "disconnect", before |-> Self,
                       again |-> (last.op = "disconnect"),
                       sent |-> r.sent, outcome |-> r.outcome]
    /\ UNCHANGED <<input, probed>>

(***************************************************************************)
(* Spec: the connection lifecycle.  connect() meets every probe outcome;   *)
(* call_api() runs between connects on a few requests.                     *)
(***************************************************************************)
Init ==
    /\ \E c \in Credentials : Starts(NewAdapter(c[1], c[2]))
    /\ input = NoInput
    /\ probed = NotProbed
    /\ last = [op |-> "init"]

Connect ==
    /\ Len(closes) < MaxSessions
    /\ \E net \in ProbeNets, now \in Clock : ConnectWith(net, now)

CallApi ==
    \E request \in FewRequests, net \in FewCallNets, now \in Clock :
        CallApiWith(request, net, now)

Next == Connect \/ Disconnect \/ CallApi

Spec == Init /\ [][Next]_vars

(***************************************************************************)
(* SpecCall: call_api() on every descriptor, HTTP outcome and clock        *)
(* reading, drawn at the start, from every state connect() and             *)
(* disconnect() lead to.                                                   *)
(***************************************************************************)
InitCall ==
    /\ \E c \in Credentials : Starts(NewAdapter(c[1], c[2]))
    /\ input \in CallInputs
    /\ probed = NotProbed
    /\ last = [op |-> "init"]

Reconnect ==
    /\ Len(closes) < MaxReconnects
    /\ \E net \in FewProbeNets, now \in Clock : ConnectWith(net, now)

Call == CallApiWith(input.request, input.net, input.now)

NextCall == Reconnect \/ Disconnect \/ Call

SpecCall == InitCall /\ [][NextCall]_vars

(***************************************************************************)
(* SpecNative: to_native() on every message, drawn at the start            *)
(***************************************************************************)
InitNative ==
    /\ Starts(NewAdapter("test-key", "test-secret"))
    /\ input \in Messages
    /\ probed = NotProbed
    /\ last = [op |-> "init"]

ToNative ==
    /\ last.op = "init"
    /\ last' = [op |-> "to_native", outcome |-> to_native(input)]
    /\ UNCHANGED <<adapter, input, probed>>

NextNative == ToNative

SpecNative == InitNative /\ [][NextNative]_vars

(***************************************************************************)
(* Properties                                                              *)
(***************************************************************************)
SigningHeaders == {"X-BAPI-API-KEY", "X-BAPI-SIGN", "X-BAPI-TIMESTAMP", "X-BAPI-RECV-WINDOW"}

CalledSigned == last.op = "call_api" /\ Get(last.request, "signed", FALSE)

CredentialsAbsent ==
    last.before.api_key \in {None, ""} \/ last.before.api_secret \in {None, ""}

\* C1: a call_api whose descriptor has signed = true and whose adapter lacks the
\* API key or the API secret (None or empty) raises AdapterError and issues no
\* HTTP request; every request issued for a signed descriptor, GET or POST,
\* carries the four signing headers.
C1_SignedNeverSentUnsigned ==
    CalledSigned =>
        /\ CredentialsAbsent =>
              /\ ~last.outcome.ok
              /\ last.outcome.exc = "AdapterError"
              /\ last.sent = <<>>
        /\ \A i \in DOMAIN last.sent :
              /\ SigningHeaders \subseteq DOMAIN last.sent[i].headers
              /\ last.sent[i].headers["X-BAPI-API-KEY"] \notin {None, ""}

C1_Witness ==
    /\ CalledSigned
    /\ last.request.method = "POST"
    /\ last.before.api_key = "test-key"
    /\ last.before.api_secret = ""
    /\ ~last.outcome.ok

GotObject ==
    /\ last.op = "call_api"
    /\ last.sent # <<>>
    /\ ~Has(last.net, "raises")
    /\ last.net.body.json = "object"

\* C2: when call_api receives a JSON object body with a non-zero retCode it
\* raises an AdapterError carrying the code and the retMsg text; with retCode 0
\* it returns the body's result unchanged, and the whole body only when the
\* body has no result field.
C2_ResultCodeDecides ==
    (GotObject /\ Has(last.net.body.data, "retCode")) =>
        LET data == last.net.body.data
        IN  IF data["retCode"] # 0
            THEN /\ ~last.outcome.ok
                 /\ last.outcome.exc = "AdapterError"
                 /\ last.outcome.args[1] = ToString(data["retCode"])
                 /\ Has(data, "retMsg") => last.outcome.args[2] = data["retMsg"]
            ELSE /\ last.outcome.ok
                 /\ Has(data, "result") => last.outcome.value = data["result"]
                 /\ ~Has(data, "result") => last.outcome.value = data

C2_Witness ==
    /\ GotObject
    /\ Has(last.net.body.data, "retCode") /\ last.net.body.data["retCode"] = 10001
    /\ Has(last.net.body.data, "retMsg")
    /\ ~last.outcome.ok

TransportFailures ==
    {"requests.ConnectionError", "ConnectionError", "requests.ConnectTimeout",
     "requests.ReadTimeout", "TimeoutError"}

TransportFailed ==
    last.sent # <<>> /\ Has(last.net, "raises") /\ last.net.raises \in TransportFailures

ExchangeAccepted == GotObject /\ Get(last.net.body.data, "retCode", 0) = 0

\* C3: a call_api either returns or raises one of two kinds: a connection
\* failure or timeout of the HTTP call raises AdapterConnectionError, every
\* other failure raises AdapterError itself, and it returns only when a request
\* was answered with result code 0.
C3_TwoErrorKinds ==
    last.op = "call_api" =>
        /\ TransportFailed =>
              ~last.outcome.ok /\ last.outcome.exc = "AdapterConnectionError"
        /\ (~TransportFailed /\ ~ExchangeAccepted) =>
              ~last.outcome.ok /\ last.outcome.exc = "AdapterError"
        /\ ExchangeAccepted => last.outcome.ok

C3_Witness ==
    /\ last.op = "call_api"
    /\ TransportFailed
    /\ last.net.raises = "requests.ReadTimeout"
    /\ last.outcome.exc = "AdapterConnectionError"

ProbeFailed ==
    /\ last.op = "connect"
    /\ \/ Has(last.net, "raises") /\ last.net.raises \in TransportFailures
       \/ ~Has(last.net, "raises") /\ last.net.status >= 400

\* C4: a connect() whose probe cannot complete (connection failure, timeout or
\* HTTP error status) raises AdapterConnectionError, after exactly one probe
\* request.
C4_ProbeFailureIsConnectionError ==
    ProbeFailed =>
        /\ ~last.outcome.ok
        /\ last.outcome.exc = "AdapterConnectionError"
        /\ Len(last.sent) = 1

\* C5: after a connect() that returns, the stored offset is the server time the
\* probe reported minus the local time of that connect, in milliseconds; no
\* offset from before the connect stays in place.
C5_OffsetFromThisConnect ==
    (last.op = "connect" /\ last.outcome.ok) =>
        \E n \in 1..MaxServerSec :
            /\ Get(Get(last.net.body.data, "result", EmptyDict), "timeSecond", <<>>)
                   = Digits(n)
            /\ time_offset = n * 1000 - last.now

\* C6: disconnect() raises nothing and leaves the handle cleared and connected
\* false from every state; it closes the session it held, once, and touches no
\* other session; a disconnect() right after a disconnect() changes nothing;
\* no session is ever closed twice.
C6_DisconnectIdempotent ==
    /\ \A n \in DOMAIN closes : closes[n] <= 1
    /\ last.op = "disconnect" =>
          /\ last.outcome.ok
          /\ session = 0
          /\ ~connected
          /\ DOMAIN closes = DOMAIN last.before.closes
          /\ \A n \in DOMAIN closes :
                closes[n] = last.before.closes[n] + (IF n = last.before.session THEN 1 ELSE 0)
          /\ <<api_key, api_secret, time_offset>> =
                <<last.before.api_key, last.before.api_secret, last.before.time_offset>>
          /\ last.again => Self = last.before

C6_Witness ==
    /\ last.op = "disconnect"
    /\ last.again
    /\ \E n \in DOMAIN closes : closes[n] = 1

\* C7: one call_api issues at most one HTTP request: exactly one when the
\* method is GET or POST and the signing it needs succeeds, none otherwise,
\* whatever the HTTP call then does.
C7_NoRetry ==
    last.op = "call_api" =>
        /\ Len(last.sent) <= 1
        /\ Len(last.sent) = 1 <=>
              /\ last.request.method \in {"GET", "POST"}
              /\ Get(last.request, "signed", FALSE) => ~CredentialsAbsent

C7_Witness ==
    /\ last.op = "call_api"
    /\ Has(last.net, "raises")
    /\ Len(last.sent) = 1
    /\ ~last.outcome.ok

SixActions ==
    {"ACT.QUERY.DATA", "ACT.QUERY.STATUS", "ACT.TRANSACT.REQUEST",
     "ACT.CANCEL", "ACT.QUERY.LIST", "ACT.QUERY.BALANCE"}

IsUnsupportedError(outcome) ==
    /\ ~outcome.ok
    /\ outcome.exc = "AdapterError"
    /\ outcome.fmt = "Unsupported action '{}'. Supported: {}"

\* C8: to_native raises the unsupported-action AdapterError, naming the action
\* and listing the six supported actions, for every action outside the table
\* and for none inside; supported_actions is exactly the six actions; an
\* unsupported action yields no descriptor.
C8_UnsupportedAction ==
    /\ {supported_actions[i] : i \in DOMAIN supported_actions} = SixActions
    /\ Len(supported_actions) = 6
    /\ last.op = "to_native" =>
          /\ IsUnsupportedError(last.outcome) <=> input.action \notin SixActions
          /\ input.action \notin SixActions =>
                /\ ~last.outcome.ok
                /\ last.outcome.args[1] = input.action
                /\ last.outcome.args[2] =
                      "['ACT.QUERY.DATA', 'ACT.QUERY.STATUS', 'ACT.TRANSACT.REQUEST', "
                      \o "'ACT.CANCEL', 'ACT.QUERY.LIST', 'ACT.QUERY.BALANCE']"

C8_Witness ==
    /\ last.op = "to_native"
    /\ input.action = "ACT.CREATE.TEXT"
    /\ IsUnsupportedError(last.outcome)

\* the parameters the builders accept, as section 4.3 of the specification lists them
ValidParameters(action, p) ==
    CASE action = "ACT.QUERY.DATA" ->
            /\ Get(p, "type", "price") \in {"price", "24h", "klines", "depth"}
            /\ Get(p, "type", "price") \in {"klines", "depth"} =>
                  Has(p, "symbol") /\ p["symbol"] # <<>>
      [] action = "ACT.TRANSACT.REQUEST" ->
            /\ {"symbol", "side", "quantity"} \subseteq DOMAIN p
            /\ Upper(Get(p, "order_type", MARKET)) = <<"L","I","M","I","T">> =>
                  Has(p, "price")
      [] action \in {"ACT.CANCEL", "ACT.QUERY.STATUS"} ->
            {"symbol", "order_id"} \subseteq DOMAIN p
      [] OTHER -> TRUE

\* method, endpoint and signed flag of the fixed table
TableRow(action, p) ==
    CASE action = "ACT.QUERY.DATA" ->
            (CASE Get(p, "type", "price") = "klines" -> <<"GET", "/v5/market/kline", FALSE>>
               [] Get(p, "type", "price") = "depth" -> <<"GET", "/v5/market/orderbook", FALSE>>
               [] OTHER -> <<"GET", "/v5/market/tickers", FALSE>>)
      [] action = "ACT.TRANSACT.REQUEST" -> <<"POST", "/v5/order/create", TRUE>>
      [] action = "ACT.CANCEL" -> <<"POST", "/v5/order/cancel", TRUE>>
      [] action = "ACT.QUERY.STATUS" -> <<"GET", "/v5/order/realtime", TRUE>>
      [] action = "ACT.QUERY.LIST" -> <<"GET", "/v5/order/realtime", TRUE>>
      [] action = "ACT.QUERY.BALANCE" -> <<"GET", "/v5/account/wallet-balance", TRUE>>

\* C9: for every supported action with valid parameters to_native returns the
\* descriptor of the fixed table (method, endpoint, signed flag); signed is
\* false exactly for the market queries.
C9_FixedTable ==
    (last.op = "to_native" /\ input.action \in SixActions
        /\ ValidParameters(input.action, input.parameters)) =>
        /\ last.outcome.ok
        /\ <<last.outcome.value.method, last.outcome.value.endpoint,
             last.outcome.value.signed>> = TableRow(input.action, input.parameters)
        /\ last.outcome.value.signed <=> input.action # "ACT.QUERY.DATA"

C9_Witness ==
    /\ last.op = "to_native"
    /\ input.action = "ACT.QUERY.STATUS"
    /\ last.outcome.ok
    /\ last.outcome.value.signed

RequiredFields == <<"symbol", "side", "quantity">>

\* C10: place order without one of symbol, side, quantity raises the
\* missing-required-field AdapterError naming the first field that is missing,
\* in the order symbol, side, quantity; a descriptor is returned only when all
\* three are present.
C10_MissingRequiredField ==
    (last.op = "to_native" /\ input.action = "ACT.TRANSACT.REQUEST") =>
        LET missing == {i \in 1..3 : ~Has(input.parameters, RequiredFields[i])}
        IN  /\ last.outcome.ok => missing = {}
            /\ missing # {} =>
                  /\ ~last.outcome.ok
                  /\ last.outcome.exc = "AdapterError"
                  /\ last.outcome.fmt = "Missing required field '{}' for order placement."
                  /\ \E i \in missing :
                        /\ last.outcome.args = <<RequiredFields[i]>>
                        /\ \A j \in missing : i <= j

C10_Witness ==
    /\ last.op = "to_native"
    /\ input.action = "ACT.TRANSACT.REQUEST"
    /\ Has(input.parameters, "symbol")
    /\ ~Has(input.parameters, "side")
    /\ ~Has(input.parameters, "quantity")
    /\ ~last.outcome.ok
    /\ last.outcome.args = <<"side">>

\* the keys of a descriptor's parameters, and the value under one of them
ParamKeys(desc) == {desc.params[i][1] : i \in DOMAIN desc.params}

ParamValue(desc, k) ==
    desc.params[CHOOSE i \in DOMAIN desc.params : desc.params[i][1] = k][2]

PlacesOrder ==
    /\ last.op = "to_native"
    /\ input.action = "ACT.TRANSACT.REQUEST"
    /\ {"symbol", "side", "quantity"} \subseteq DOMAIN input.parameters

LimitSpellings ==
    {<<"l","i","m","i","t">>, <<"L","I","M","I","T">>, <<"L","i","m","i","t">>}

AsksLimit ==
    Has(input.parameters, "order_type") /\ input.parameters["order_type"] \in LimitSpellings

\* the supplied prices written in decimal notation
DecimalString(x) ==
    CASE x = IntValue(2000) -> "2000"
      [] x = FloatValue(655, -1) -> "65.5"
      [] x = FloatValue(1, -5) -> "0.00001"

\* C11: place order with symbol, side and quantity: without order_type the
\* descriptor has orderType "Market" and neither price nor timeInForce; with
\* order_type LIMIT in any case it raises "price required" when price is
\* absent, and otherwise has orderType "Limit", price the decimal string of the
\* supplied price and timeInForce the supplied one or "GTC"; qty is a string.
C11_MarketAndLimitOrders ==
    PlacesOrder =>
        LET p == input.parameters
            out == last.outcome
        IN  /\ out.ok => ParamValue(out.value, "qty") \in STRING
            /\ ~Has(p, "order_type") =>
                  /\ out.ok
                  /\ ParamValue(out.value, "orderType") = "Market"
                  /\ ParamKeys(out.value) \cap {"price", "timeInForce"} = {}
            /\ (AsksLimit /\ ~Has(p, "price")) =>
                  /\ ~out.ok
                  /\ out.exc = "AdapterError"
                  /\ out.fmt = "Price required for LIMIT orders."
            /\ (AsksLimit /\ Has(p, "price")) =>
                  /\ out.ok
                  /\ ParamValue(out.value, "orderType") = "Limit"
                  /\ ParamValue(out.value, "price") = DecimalString(p["price"])
                  /\ ParamValue(out.value, "timeInForce") = Get(p, "time_in_force", "GTC")

SignedSent == CalledSigned /\ last.sent # <<>>

\* the signature header a request must carry when param_string is what is signed
SignatureOver(request, param_string) ==
    "hmac_sha256(" \o last.before.api_secret \o ", " \o
    request.headers["X-BAPI-TIMESTAMP"] \o last.before.api_key \o "20000" \o
    param_string \o ")"

\* the parameters of the signed GET descriptors, sorted by key and joined
SortedQueryString(request) ==
    CASE request.url = "https://api.bybit.com/v5/account/wallet-balance" ->
            "accountType=UNIFIED"
      [] request.url = "https://api.bybit.com/v5/order/realtime" ->
            "category=spot&orderId=42&symbol=BTC"

\* the parameters of the signed POST descriptor as JSON without whitespace
CompactJson(request) ==
    CASE request.url = "https://api.bybit.com/v5/order/cancel" ->
            "{\"category\":\"spot\",\"symbol\":\"BTC\",\"orderId\":\"42\"}"

\* the same as json.dumps writes it: ", " between members, ": " after a key
DefaultJson(request) ==
    CASE request.url = "https://api.bybit.com/v5/order/cancel" ->
            "{\"category\": \"spot\", \"symbol\": \"BTC\", \"orderId\": \"42\"}"

SignedAs(request, param_string) ==
    /\ request.headers["X-BAPI-API-KEY"] = last.before.api_key
    /\ request.headers["X-BAPI-RECV-WINDOW"] = "20000"
    /\ request.headers["X-BAPI-SIGN"] = SignatureOver(request, param_string)

\* C12 as stated: the signed string is timestamp, API key, receive window and
\* parameter string concatenated; for a GET the parameter string is the
\* parameters sorted by key as key=value joined by '&', for a POST the compact
\* JSON object of the parameters in the order provided; the signature is the
\* hex HMAC-SHA256 of it keyed by the secret.
C12_SignedStringCompact ==
    SignedSent =>
        \A i \in DOMAIN last.sent :
            LET request == last.sent[i]
            IN  IF request.verb = "GET"
                THEN SignedAs(request, SortedQueryString(request))
                ELSE SignedAs(request, CompactJson(request))

\* C12 as amended: the same, with the POST parameter string being the JSON
\* object as json.dumps writes it by default, with ", " between members and
\* ": " after each key, keys in the order provided.
C12_SignedString ==
    SignedSent =>
        \A i \in DOMAIN last.sent :
            LET request == last.sent[i]
            IN  IF request.verb = "GET"
                THEN SignedAs(request, SortedQueryString(request))
                ELSE SignedAs(request, DefaultJson(request))

C12_Witness ==
    /\ SignedSent
    /\ last.request.method = "POST"
    /\ last.outcome.ok

BuySellSpellings ==
    {<<"b","u","y">>, <<"B","U","Y">>, <<"B","u","y">>,
     <<"s","e","l","l">>, <<"S","E","L","L">>, <<"S","e","l","l">>}

MarketLimitSpellings ==
    LimitSpellings \cup {<<"m","a","r","k","e","t">>, <<"M","A","R","K","E","T">>, MARKET}

\* C13: a builder returns a descriptor or raises a validation AdapterError and
\* never puts a default in place of an invalid supplied value: a place order
\* whose side is neither buy nor sell yields no descriptor with side Buy or
\* Sell, one whose order_type is neither market nor limit yields no descriptor
\* with orderType Market or Limit; the adapter's state is left as it was.
C13_NoSilentDefault ==
    last.op = "to_native" =>
        LET p == input.parameters
            out == last.outcome
        IN  /\ ~out.ok => out.exc = "AdapterError"
            /\ Self = NewAdapter("test-key", "test-secret")
            /\ (PlacesOrder /\ p["side"] \notin BuySellSpellings) =>
                  ~(out.ok /\ ParamValue(out.value, "side") \in {"Buy", "Sell"})
            /\ (PlacesOrder /\ Has(p, "order_type")
                    /\ p["order_type"] \notin MarketLimitSpellings) =>
                  ~(out.ok /\ ParamValue(out.value, "orderType") \in {"Market", "Limit"})

\* C14: for every signed GET the parameter string under the signature lists
\* the key=value pairs in the order of the query parameters handed to the
\* session; for every signed POST the JSON text under the signature is the
\* serialization, in the same key order, of the parameters sent as the body.
C14_SignedIsSent ==
    SignedSent =>
        \A i \in DOMAIN last.sent :
            LET request == last.sent[i]
            IN  IF request.verb = "GET"
                THEN SignedAs(request, JoinQuery(request.params))
                ELSE SignedAs(request, JsonDumps(request.params))

\* C15: after any sequence of connect(), disconnect() and call_api(): when the
\* most recent connect() failed the adapter is not marked connected, and when
\* it is marked connected it holds the session on which the most recent
\* connect() probed successfully.
C15_ConnectedMeansProbed ==
    /\ (probed.ran /\ ~probed.ok) => ~connected
    /\ connected =>
          /\ session # 0
          /\ probed.ran /\ probed.ok
          /\ probed.session = session

====
